---- MODULE Spec2Model ----
(***************************************************************************)
(* Model of the forensic-value-ai orchestration core:                      *)
(*   - LLMProvider (src/src/llm/provider.py): provider chain and fallback  *)
(*   - BaseAgent and the agents (src/src/agents/*.py)                      *)
(*   - ForensicWorkflow (src/src/graph/workflow.py): the graph and analyze *)
(*   - calculate_adjusted_confidence (src/src/memory/confidence.py)        *)
(*   - FeedbackMemory.retrieve_relevant_feedback (src/src/memory/feedback.py)*)
(*   - run_analysis (src/mvp_run.py): the sequential runner                *)
(*                                                                         *)
(* The graph is the one declared in _build_graph.  The nodes receive the   *)
(* run's state dict, mutate it and hand it on, as the code is written:     *)
(* an assignment state[k] = v made by a node or by the router is seen by   *)
(* every later node.  The four agents of the fan-out run concurrently;     *)
(* every other node runs alone.                                            *)
(***************************************************************************)
EXTENDS Integers, Sequences, FiniteSets, TLC

VARIABLES
    settings,       \* which of settings.google_api_key / antigravity_enabled / openrouter_api_key are set
    providers,      \* LLMProvider._providers: the chain, a sequence of provider names
    current_idx,    \* LLMProvider._current_idx
    total_usage,    \* LLMProvider._total_usage: [input, output, calls]
    lastOuts,       \* what each provider of the chain answered in the most recent call
    lastCall,       \* the outcome of the most recent LLMProvider.call
    ncalls,         \* number of LLMProvider.call invocations made so far
    redis,          \* ForensicWorkflow.redis is set
    feedback_memory,\* ForensicWorkflow.feedback_memory is set
    pc,             \* position of analyze / of the graph
    state,          \* the ForensicState dict of the run
    task,           \* per agent of the fan-out: its position and local values
    active,         \* the agents dispatched in the current phase
    requested,      \* the tasks named by the critic when the reinvestigate edge was taken
    store,          \* the PostgresManager calls made so far, in order
    ret,            \* what analyze returned
    exc,            \* the exception that escaped graph.invoke, if any
    hist,           \* history: phases, aggregate and critic runs, edges taken, what the
                    \* fetch, the cache, the memory load and the last critic run did
    args,           \* the function applied on its own and its arguments
    returned,       \* what that function returned or raised
    callers,        \* per thread inside LLMProvider.call: its position and local values
    mvp             \* the locals of run_analysis (mvp_run.py) and its position

vars == <<settings, providers, current_idx, total_usage, lastOuts, lastCall,
          ncalls, redis, feedback_memory, pc, state, task, active, requested,
          store, ret, exc, hist, args, returned, callers, mvp>>

llmVars == <<settings, providers, current_idx, total_usage, lastOuts, lastCall,
             ncalls>>
fnVars == <<args, returned>>
runVars == <<callers, mvp>>
wfVars == <<redis, feedback_memory, pc, state, task, active, requested,
            store, ret, exc, hist>>

-----------------------------------------------------------------------------
(* Bounds *)

\* number of LLMProvider.call invocations explored in a sequence of calls
MaxCalls == 3

\* largest token count a single response reports
MaxTokens == 2

\* longest list of raw finding records an LLM result carries when
\* _extract_findings is applied on its own
MaxRecords == 2

\* longest list of approved and of rejected matches given to
\* calculate_adjusted_confidence
MaxMatches == 2

-----------------------------------------------------------------------------
(* LLMProvider *)

ProviderOutcomes == {"ok", "rate_limit", "error"}

\* settings.google_api_key / antigravity_enabled / openrouter_api_key are set
Configs == [google_api_key : BOOLEAN, antigravity_enabled : BOOLEAN,
            openrouter_api_key : BOOLEAN]

\* a plausible slip: the fallback provider is not installed
build_provider_chain_bare(cfg) ==
    (IF cfg.google_api_key THEN <<"gemini">> ELSE <<>>)
      \o (IF cfg.antigravity_enabled THEN <<"antigravity">> ELSE <<>>)
      \o (IF cfg.openrouter_api_key THEN <<"openrouter">> ELSE <<>>)

build_provider_chain(cfg) ==
    LET g == IF cfg.google_api_key THEN <<"gemini">> ELSE <<>>
        a == IF cfg.antigravity_enabled THEN <<"antigravity">> ELSE <<>>
        o == IF cfg.openrouter_api_key THEN <<"openrouter">> ELSE <<>>
        chain == g \o a \o o
    IN  IF chain = <<>> THEN <<"none">> ELSE chain

\* what the providers of a chain can answer to one request; _call_none always raises
OutcomeVectors(provs) ==
    {o \in [1..Len(provs) -> ProviderOutcomes] :
        \A i \in 1..Len(provs) : provs[i] = "none" => o[i] = "error"}

\* idx = (self._current_idx + attempt) % len(self._providers), 1-based here
ProviderIdx(cur, n, attempt) == ((cur + attempt) % n) + 1

\* a plausible slip: the loop keeps going after a provider has answered
NumAttemptsNoStop(provs, cur, outs) == Len(provs)

\* number of iterations of the for loop of call that are entered
NumAttempts(provs, cur, outs) ==
    LET n == Len(provs)
        oks == {a \in 0..(n - 1) : outs[ProviderIdx(cur, n, a)] = "ok"}
    IN  IF oks = {} THEN n
        ELSE (CHOOSE a \in oks : \A b \in oks : a <= b) + 1

\* a plausible slip: a rate-limited provider is skipped without a trace
failure_entries_unrated(names, outs) ==
    SelectSeq([a \in 1..Len(names) |->
                  [name |-> names[a], reason |-> outs[a]]],
              LAMBDA e : e.reason # "rate_limit")

\* the errors list of call: errors.append(f"{name}: rate limited") for a
\* RateLimitError, errors.append(f"{name}: {e}") for any other exception;
\* names and outs are the failed providers and what each raised, in the
\* order they were tried
failure_entries(names, outs) ==
    [a \in 1..Len(names) |->
        [name   |-> names[a],
         reason |-> IF outs[a] = "rate_limit" THEN "rate limited" ELSE "error"]]

\* LLMProvider.call: the providers tried, in order, and the outcome.
\* resp is the response of the provider that answers.
call(provs, cur, outs, resp) ==
    LET n == Len(provs)
        k == NumAttempts(provs, cur, outs)
        lastIdx == ProviderIdx(cur, n, k - 1)
        succeeded == outs[lastIdx] = "ok"
        nfail == IF succeeded THEN k - 1 ELSE k
    IN  [ok        |-> succeeded,
         attempted |-> [a \in 1..k |-> provs[ProviderIdx(cur, n, a - 1)]],
         errors    |-> failure_entries(
                          [a \in 1..nfail |-> provs[ProviderIdx(cur, n, a - 1)]],
                          [a \in 1..nfail |-> outs[ProviderIdx(cur, n, a - 1)]]),
         provider  |-> IF succeeded THEN provs[lastIdx] ELSE "-",
         response  |-> IF succeeded THEN resp ELSE [content |-> "-", input_tokens |-> 0,
                                                    output_tokens |-> 0]]

\* the counters after a call: changed on success only
usage_after(usage, r) ==
    IF r.ok
    THEN [input  |-> usage.input + r.response.input_tokens,
          output |-> usage.output + r.response.output_tokens,
          calls  |-> usage.calls + 1]
    ELSE usage

NoCall == [ok |-> FALSE, attempted |-> <<>>, errors |-> <<>>, provider |-> "-",
           response |-> [content |-> "-", input_tokens |-> 0, output_tokens |-> 0]]

\* the threads that share one LLMProvider: the agents of the fan-out call
\* self.llm.call at the same time
Callers == {"forensic", "management"}

\* a thread's position in call, the response it holds, the counter value it
\* has read, the responses call has returned to it (their number and their
\* token sums) and how often call raised LLMProviderError to it
CallerIdle == [pc |-> "idle", response |-> [input_tokens |-> 0, output_tokens |-> 0],
               read |-> 0, served |-> [input |-> 0, output |-> 0, calls |-> 0],
               raised |-> 0]

-----------------------------------------------------------------------------
(* Structured-output recovery: LLMProvider._parse_json_response *)

\* The shapes of response text the four strategies tell apart:
\*   json         the stripped text is valid JSON
\*   fenced_json  a closed ```json block holding valid JSON
\*   fenced       a closed ``` block holding valid JSON
\*   fenced_open  an opening fence that is never closed
\*   embedded     prose around a valid {...} object
\*   repairable   near-valid JSON that only json_repair reads
\*   garbage      nothing reads it
Forms == {"json", "fenced_json", "fenced", "fenced_open", "embedded",
          "repairable", "garbage"}

\* the four strategies, in the order the code applies them
Strategies == <<"direct", "fenced", "braces", "repair">>

\* the strategies that read a text of each form when applied to it
Reads(form) ==
    CASE form = "json" -> {"direct", "braces", "repair"}
      [] form \in {"fenced_json", "fenced"} -> {"fenced", "braces", "repair"}
      [] form \in {"fenced_open", "embedded"} -> {"braces", "repair"}
      [] form = "repairable" -> {"repair"}
      [] OTHER -> {}

\* the ValueError of the last line, with text[:200], and the ValueError of
\* str.index when the closing fence is missing
ParseError == "Could not parse JSON from LLM response: <text[:200]>"
IndexError == "substring not found"

\* text.index("```", start) finds no closing fence
fence_missing(form) == form = "fenced_open"

\* _parse_json_response on a text of form c.form carrying the value c.payload:
\* the strategies tried, and the value returned or the ValueError raised
parse_json_response(c) ==
    LET reads == Reads(c.form)
        Ok(n) == [ok |-> TRUE, value |-> c.payload, error |-> "-",
                  tried |-> SubSeq(Strategies, 1, n)]
    IN  IF "direct" \in reads THEN Ok(1)
        ELSE IF fence_missing(c.form)
        \* the ValueError leaves the function: no later strategy runs
        THEN [ok |-> FALSE, value |-> "-", error |-> IndexError,
              tried |-> SubSeq(Strategies, 1, 2)]
        ELSE IF "fenced" \in reads THEN Ok(2)
        ELSE IF "braces" \in reads THEN Ok(3)
        ELSE IF "repair" \in reads THEN Ok(4)
        ELSE [ok |-> FALSE, value |-> "-", error |-> ParseError,
              tried |-> Strategies]

-----------------------------------------------------------------------------
(* BaseAgent *)

\* dict.get(k, d)
Get(f, k, d) == IF k \in DOMAIN f THEN f[k] ELSE d

\* the elements of a list
Range(q) == {q[i] : i \in 1..Len(q)}

\* str.lower() on the severity strings the model draws
Lower(s) ==
    CASE s \in {"CRITICAL", "Critical", "critical"} -> "critical"
      [] s \in {"HIGH", "High", "high"} -> "high"
      [] s \in {"MEDIUM", "Medium", "medium"} -> "medium"
      [] s \in {"LOW", "Low", "low"} -> "low"
      [] OTHER -> s

\* the prompt a request is made with, as the pieces it is put together from
UserPrompt == <<"user_prompt">>

\* a plausible slip: the retry repeats the original prompt
retry_prompt_unchanged(user_prompt, error_msg) == user_prompt

\* user_prompt += "... Your previous response was invalid JSON. Error: {error_msg} ..."
retry_prompt(user_prompt, error_msg) == Append(user_prompt, error_msg)

\* BaseAgent._call_llm_json: at most two LLMProvider.call, x1 and x2 being what
\* the providers answer to the first and to the retried request
call_llm_json(provs, cur, x1, x2) ==
    LET r1 == call(provs, cur, x1.outs, x1.resp)
        p1 == parse_json_response(r1.response.content)
        r2 == call(provs, cur, x2.outs, x2.resp)
        p2 == parse_json_response(r2.response.content)
        once == <<UserPrompt>>
        twice == <<UserPrompt, retry_prompt(UserPrompt, p1.error)>>
    IN  IF ~r1.ok
        THEN [ok |-> FALSE, result |-> "-", error |-> "LLMProviderError",
              calls |-> <<r1>>, retried |-> FALSE, prompts |-> once]
        ELSE IF p1.ok
        THEN [ok |-> TRUE, result |-> p1.value, error |-> "-",
              calls |-> <<r1>>, retried |-> FALSE, prompts |-> once]
        ELSE IF ~r2.ok
        THEN [ok |-> FALSE, result |-> "-", error |-> "LLMProviderError",
              calls |-> <<r1, r2>>, retried |-> TRUE, prompts |-> twice]
        ELSE IF p2.ok
        THEN [ok |-> TRUE, result |-> p2.value, error |-> "-",
              calls |-> <<r1, r2>>, retried |-> TRUE, prompts |-> twice]
        ELSE [ok |-> FALSE, result |-> "-", error |-> "ValueError",
              calls |-> <<r1, r2>>, retried |-> TRUE, prompts |-> twice]

\* the usage counters after the calls of one _call_llm_json
usage_after_calls(usage, calls) ==
    IF Len(calls) = 1 THEN usage_after(usage, calls[1])
    ELSE usage_after(usage_after(usage, calls[1]), calls[2])

\* a raw record whose severity is JSON null makes .lower() raise
extract_raises(result) ==
    \E i \in 1..Len(Get(result, "findings", <<>>)) :
        Get(Get(result, "findings", <<>>)[i], "severity", "medium") = "NULL"

\* a plausible slip: the flag is copied from the raw record
requires_human_review_copied(f) == Get(f, "requires_human_review", FALSE)

\* float(f.get("confidence", 50)) < 70 or f.get("severity", "").lower() == "critical"
requires_human_review(f) ==
    \/ Get(f, "confidence", 50) < 70
    \/ Lower(Get(f, "severity", "")) = "critical"

\* a plausible slip: the severity is stored as the model wrote it
severity_verbatim(f) == Get(f, "severity", "medium")

\* f.get("severity", "medium").lower()
severity_of(f) == Lower(Get(f, "severity", "medium"))

\* BaseAgent._extract_findings (description and industry_benchmark are
\* copied through like title and are left out)
extract_findings(agent_name, result) ==
    LET findings == Get(result, "findings", <<>>)
    IN  [i \in 1..Len(findings) |->
           LET f == findings[i]
           IN  [agent_name   |-> agent_name,
                finding_type |-> Get(f, "finding_type", "unknown"),
                title        |-> Get(f, "title", "Untitled Finding"),
                severity     |-> severity_of(f),
                confidence   |-> Get(f, "confidence", 50),
                evidence     |-> Get(f, "evidence", <<>>),
                requires_human_review |-> requires_human_review(f)]]

-----------------------------------------------------------------------------
(* The run's state and the inputs the workflow model draws *)

Tasks == {"forensic", "management", "rpt", "market_intel"}

\* the three agents whose analyze has the same try/except shape
TryAgents == {"forensic", "management", "rpt"}

FindingsKey(t) ==
    CASE t = "forensic" -> "forensic_findings"
      [] t = "management" -> "management_findings"
      [] t = "rpt" -> "rpt_findings"
      [] t = "market_intel" -> "market_intel_findings"

SummaryKey(t) ==
    CASE t = "forensic" -> "forensic_summary"
      [] t = "management" -> "management_summary"
      [] t = "rpt" -> "rpt_summary"
      [] t = "market_intel" -> "market_intel_summary"

ScoreKey(t) ==
    CASE t = "forensic" -> "forensic_risk_score"
      [] t = "management" -> "management_quality_score"
      [] t = "rpt" -> "rpt_risk_score"
      [] t = "market_intel" -> "market_sentiment_score"

\* the key of the score in the agent's LLM result
ResultScoreKey(t) ==
    CASE t = "forensic" -> "overall_risk_score"
      [] t = "management" -> "management_quality_score"
      [] t = "rpt" -> "rpt_risk_score"
      [] t = "market_intel" -> "sentiment_score"

\* an entry of state["errors"]: the text, and the step the text names
Entry(source, text) == [source |-> source, text |-> text]

\* the entry the agent's except branch appends to state["errors"]
ErrorEntry(t) ==
    CASE t = "forensic" -> Entry(t, "Forensic agent error")
      [] t = "management" -> Entry(t, "Management agent error")
      [] t = "rpt" -> Entry(t, "RPT agent error")

\* the fields of its own that an agent's analyze assigns, next to the three above
ExtraKeys(t) ==
    CASE t = "management" -> {"management_key_concerns"}
      [] t = "rpt" -> {"rpt_total_amount", "rpt_pct_revenue"}
      [] OTHER -> {}

\* initial_state of analyze (scores are whole numbers; overall_risk_score is
\* kept in tenths)
initial_state ==
    [company_data |-> "seed",
     memory_context |-> "", feedback_history |-> "",
     forensic_findings |-> <<>>, forensic_summary |-> "", forensic_risk_score |-> 0,
     management_findings |-> <<>>, management_summary |-> "",
     management_quality_score |-> 0, management_key_concerns |-> <<>>,
     rpt_findings |-> <<>>, rpt_summary |-> "", rpt_risk_score |-> 0,
     rpt_total_amount |-> "", rpt_pct_revenue |-> "",
     market_intel_findings |-> <<>>, market_intel_summary |-> "",
     market_sentiment_score |-> 50,
     red_flag_findings |-> <<>>, auditor_findings |-> <<>>,
     all_findings |-> <<>>, critic_result |-> <<>>,
     needs_reinvestigation |-> FALSE, human_escalation_queue |-> <<>>,
     status |-> "running", overall_risk_score |-> 0, report |-> <<>>,
     research_path |-> <<>>, errors |-> <<>>,
     iteration_count |-> 0, max_iterations |-> 3]

\* raw finding records an agent's LLM result carries in the workflow model
RawFine == [title |-> "x", severity |-> "High", confidence |-> 85]
RawNull == [title |-> "y", severity |-> "NULL"]

\* an LLM result of agent t with the given raw findings and score
Payload(t, findings, score) ==
    [k \in {"findings", ResultScoreKey(t)} |->
        IF k = "findings" THEN findings ELSE score]

\* the LLM results drawn for agent t: one finding and score 80 for every
\* agent, no finding and score 0 for forensic, a finding whose severity is
\* null for market_intel
AgentPayloads(t) ==
    {Payload(t, <<RawFine>>, 80)}
        \cup (IF t = "forensic" THEN {Payload(t, <<>>, 0)} ELSE {})
        \cup (IF t = "market_intel" THEN {Payload(t, <<RawNull>>, 80)} ELSE {})

\* the verdicts drawn for the critic: no request, a request naming forensic,
\* a request naming rpt
CriticPayloads ==
    {[reinvestigation_requests |-> q, summary |-> "Validation complete."] :
        q \in {<<>>, <<[agent |-> "forensic"]>>, <<[agent |-> "rpt"]>>}}

\* what the providers answer in the workflow model: all answer, none answers,
\* the first is rate limited and the others answer
WorkflowOutcomes(provs) ==
    {o \in OutcomeVectors(provs) :
        \/ \A i \in 1..Len(provs) : o[i] = "ok"
        \/ \A i \in 1..Len(provs) : o[i] = "error"
        \/ o[1] = "rate_limit" /\ \A i \in 2..Len(provs) : o[i] = "ok"}

\* the response texts of the workflow model: each payload as plain JSON
WorkflowContents(payloads) == {[form |-> "json", payload |-> p] : p \in payloads}

\* one request as the providers answer it
Exchanges(provs, payloads) ==
    {[outs |-> o,
      resp |-> [content |-> c, input_tokens |-> 1, output_tokens |-> 1]] :
        o \in WorkflowOutcomes(provs), c \in WorkflowContents(payloads)}

\* an agent's position (idle, ready, write, done), the shared list it is about
\* to store with the value it read and the entry it adds, the fields it has
\* assigned and whether its LLM call or normalization failed
Ready == [pc |-> "ready", key |-> "-", snap |-> <<>>, entry |-> <<>>,
          wrote |-> {}, failed |-> FALSE]
Idle == [pc |-> "idle", key |-> "-", snap |-> <<>>, entry |-> <<>>,
         wrote |-> {}, failed |-> FALSE]

\* the agents in ts start: the fan-out edges of _build_graph, or its
\* reinvestigate edge
Dispatch(ts) ==
    /\ active' = ts
    /\ task' = [t \in Tasks |-> IF t \in ts THEN Ready ELSE task[t]]
    /\ pc' = "agents"

-----------------------------------------------------------------------------
(* ForensicWorkflow.analyze and the nodes of the graph *)

StoreOp(op, status) == [op |-> op, status |-> status]

\* analyze up to graph.invoke: the run record, initial_state, the status
\* and the progress entry.  An error of set_analysis_progress is raised to
\* the caller of analyze.
analyze_begin ==
    /\ pc = "idle"
    /\ store' = store \o <<StoreOp("create_analysis", "-"),
                           StoreOp("update_analysis_status", "running")>>
    /\ state' = initial_state
    /\ IF redis
       THEN \E progress_ok \in BOOLEAN :
               pc' = IF progress_ok THEN "fetch_data" ELSE "raised"
       ELSE pc' = "fetch_data"
    /\ UNCHANGED <<llmVars, fnVars, runVars, redis, feedback_memory, task, active, requested,
                   ret, exc, hist>>

\* _fetch_data
fetch_data ==
    /\ pc = "fetch_data"
    /\ \E cached \in {"hit", "miss", "error"}, fetched \in BOOLEAN,
          cache_write_ok \in BOOLEAN :
          IF redis /\ cached = "hit"
          THEN /\ state' = [state EXCEPT !.company_data = "cached"]
               /\ pc' = "load_memory"
               /\ hist' = [hist EXCEPT !.cache = "hit"]
               /\ exc' = exc
          ELSE IF redis /\ cached = "error"
          \* get_cached_company_data is called outside the try
          THEN /\ pc' = "except"
               /\ exc' = "fetch_data"
               /\ hist' = [hist EXCEPT !.cache = "read_error"]
               /\ state' = state
          ELSE IF ~fetched
          THEN /\ state' = [state EXCEPT
                              !.errors = state.errors
                                  \o <<Entry("fetch_data", "Data fetch warning")>>]
               /\ pc' = "load_memory"
               /\ hist' = [hist EXCEPT !.fetch_raised = TRUE,
                                       !.cache = IF redis THEN "miss" ELSE "-"]
               /\ exc' = exc
          ELSE IF redis /\ ~cache_write_ok
          \* cache_company_data raises inside the try, after the merge
          THEN /\ state' = [state EXCEPT
                              !.company_data = "fetched",
                              !.errors = state.errors
                                  \o <<Entry("fetch_data", "Data fetch warning")>>]
               /\ pc' = "load_memory"
               /\ hist' = [hist EXCEPT !.cache = "write_error"]
               /\ exc' = exc
          ELSE /\ state' = [state EXCEPT !.company_data = "fetched"]
               /\ pc' = "load_memory"
               /\ hist' = [hist EXCEPT !.cache = IF redis THEN "miss" ELSE "-"]
               /\ exc' = exc
    /\ UNCHANGED <<llmVars, fnVars, runVars, redis, feedback_memory, task, active, requested,
                   store, ret>>

NoFeedback == "No prior feedback available."

\* _load_memory, followed by the fan-out to the four agents
load_memory ==
    /\ pc = "load_memory"
    /\ \E loaded \in BOOLEAN :
          LET ctx == IF feedback_memory /\ loaded THEN "formatted feedback"
                     ELSE NoFeedback
          IN  /\ state' = [state EXCEPT !.memory_context = ctx,
                                        !.feedback_history = ctx]
              /\ hist' = [hist EXCEPT !.phases = @ + 1,
                                      !.memory_raised = feedback_memory /\ ~loaded]
    /\ Dispatch(Tasks)
    /\ UNCHANGED <<llmVars, fnVars, runVars, redis, feedback_memory, requested, store, ret, exc>>

\* the assignments of the try body of forensic / management / rpt
AgentSuccess(t, result) ==
    LET s1 == [state EXCEPT ![FindingsKey(t)] = extract_findings(t, result),
                            ![SummaryKey(t)] = Get(result, "summary", "Analysis complete."),
                            ![ScoreKey(t)] = Get(result, ResultScoreKey(t), 50)]
    IN  IF t = "management"
        THEN [s1 EXCEPT !.management_key_concerns = Get(result, "key_concerns", <<>>)]
        ELSE IF t = "rpt"
        THEN [s1 EXCEPT !.rpt_total_amount = Get(result, "total_rpt_amount", "N/A"),
                        !.rpt_pct_revenue = Get(result, "rpt_as_pct_revenue", "N/A")]
        ELSE s1

\* the assignments of their except branch
AgentFailure(t) ==
    LET s1 == [state EXCEPT ![FindingsKey(t)] = <<>>,
                            ![SummaryKey(t)] = "Analysis failed",
                            ![ScoreKey(t)] = 0]
    IN  IF t = "management"
        THEN [s1 EXCEPT !.management_key_concerns = <<>>]
        ELSE s1

\* ForensicAccountingAgent / ManagementIntegrityAgent / RPTAgent .analyze up to
\* the read of the shared list in
\*   state["research_path"] = state.get("research_path", []) + [name]
\*   state["errors"] = state.get("errors", []) + [entry]
agent_analyze(t) ==
    /\ pc = "agents"
    /\ t \in active \cap TryAgents
    /\ task[t].pc = "ready"
    /\ \E x1 \in Exchanges(providers, AgentPayloads(t)) :
       \E x2 \in {x1} :
          LET j == call_llm_json(providers, current_idx, x1, x2)
          IN  /\ total_usage' = usage_after_calls(total_usage, j.calls)
              /\ IF j.ok /\ ~extract_raises(j.result)
                 THEN /\ state' = AgentSuccess(t, j.result)
                      /\ task' = [task EXCEPT ![t] =
                            [pc |-> "write", key |-> "research_path",
                             snap |-> state.research_path, entry |-> <<t>>,
                             wrote |-> {FindingsKey(t), SummaryKey(t), ScoreKey(t)}
                                       \cup ExtraKeys(t),
                             failed |-> FALSE]]
                 ELSE /\ state' = AgentFailure(t)
                      /\ task' = [task EXCEPT ![t] =
                            [pc |-> "write", key |-> "errors",
                             snap |-> state.errors, entry |-> <<ErrorEntry(t)>>,
                             wrote |-> {FindingsKey(t), SummaryKey(t), ScoreKey(t)}
                                       \cup (ExtraKeys(t) \cap {"management_key_concerns"}),
                             failed |-> TRUE]]
    /\ UNCHANGED <<settings, providers, current_idx, fnVars, runVars, lastOuts, lastCall, ncalls,
                   redis, feedback_memory, pc, active, requested, store, ret,
                   exc, hist>>

\* the store into the shared list, and the return of the agent
agent_write(t) ==
    /\ pc = "agents"
    /\ t \in active
    /\ task[t].pc = "write"
    /\ state' = [state EXCEPT ![task[t].key] = task[t].snap \o task[t].entry]
    /\ task' = [task EXCEPT ![t] = [@ EXCEPT !.pc = "done", !.snap = <<>>,
                                             !.entry = <<>>,
                                             !.wrote = @ \cup {task[t].key}]]
    /\ UNCHANGED <<llmVars, fnVars, runVars, redis, feedback_memory, pc, active, requested,
                   store, ret, exc, hist>>

\* MarketIntelligenceAgent.analyze: a failed call returns the state as it is,
\* _extract_findings runs outside the try
market_intel_analyze ==
    /\ pc = "agents"
    /\ "market_intel" \in active
    /\ task["market_intel"].pc = "ready"
    /\ \E x1 \in Exchanges(providers, AgentPayloads("market_intel")) :
       \E x2 \in {x1} :
          LET j == call_llm_json(providers, current_idx, x1, x2)
              t == "market_intel"
          IN  /\ total_usage' = usage_after_calls(total_usage, j.calls)
              /\ IF ~j.ok
                 THEN /\ state' = state
                      /\ task' = [task EXCEPT ![t] = [@ EXCEPT !.pc = "done",
                                                               !.failed = TRUE]]
                      /\ UNCHANGED <<pc, exc>>
                 ELSE IF extract_raises(j.result)
                 THEN /\ pc' = "except"
                      /\ exc' = "market_intel"
                      /\ UNCHANGED <<state, task>>
                 ELSE /\ state' = [state EXCEPT
                            ![FindingsKey(t)] = extract_findings(t, j.result),
                            ![SummaryKey(t)] = Get(j.result, "summary", "Analysis failed."),
                            ![ScoreKey(t)] = Get(j.result, ResultScoreKey(t), 50)]
                      /\ task' = [task EXCEPT ![t] =
                            [@ EXCEPT !.pc = "done",
                                      !.wrote = {FindingsKey(t), SummaryKey(t),
                                                 ScoreKey(t)}]]
                      /\ UNCHANGED <<pc, exc>>
    /\ UNCHANGED <<settings, providers, current_idx, fnVars, runVars, lastOuts, lastCall, ncalls,
                   redis, feedback_memory, active, requested, store, ret, hist>>

\* a plausible slip: aggregate is triggered by the first agent that finishes
AnyDone(ts) == \E t \in ts : task[t].pc = "done"

\* the fan-in edges: aggregate runs in the step after the one in which the
\* dispatched agents ran, when every one of them has returned
BarrierClosed(ts) == \A t \in ts : task[t].pc = "done"

aggregate(st) ==
    st.forensic_findings \o st.management_findings
        \o st.rpt_findings \o st.market_intel_findings

\* _aggregate_findings
aggregate_findings ==
    /\ pc = "agents"
    /\ BarrierClosed(active)
    /\ state' = [state EXCEPT !.all_findings = aggregate(state)]
    /\ pc' = "critic"
    /\ hist' = [hist EXCEPT !.aggregates = @ + 1]
    /\ UNCHANGED <<llmVars, fnVars, runVars, redis, feedback_memory, task, active, requested,
                   store, ret, exc>>

\* the tasks named by the reinvestigation requests of a verdict
Named(result) ==
    {Get(result, "reinvestigation_requests", <<>>)[i].agent :
        i \in 1..Len(Get(result, "reinvestigation_requests", <<>>))}

\* what the providers answer to the critic: as to the agents, or every
\* provider answers with text no strategy reads, also when asked again
CriticExchanges(provs) ==
    Exchanges(provs, CriticPayloads)
        \cup {[outs |-> [i \in 1..Len(provs) |-> "ok"],
               resp |-> [content |-> [form |-> "garbage", payload |-> <<>>],
                         input_tokens |-> 1, output_tokens |-> 1]]}

\* a plausible slip: a verdict always sends the run back
needs_reinvestigation_always(result) == TRUE

\* state["needs_reinvestigation"] = len(reinvestigations) > 0
needs_reinvestigation(result) ==
    Len(Get(result, "reinvestigation_requests", <<>>)) > 0

\* CriticAgent.analyze
critic_analyze ==
    /\ pc = "critic"
    /\ LET all_findings ==
              IF state.all_findings # <<>> THEN state.all_findings
              ELSE state.forensic_findings \o state.management_findings
                     \o state.rpt_findings \o state.red_flag_findings
                     \o state.auditor_findings
       IN  IF all_findings = <<>>
           THEN /\ state' = [state EXCEPT
                      !.critic_result =
                          [validated_findings |-> <<>>,
                           reinvestigation_requests |-> <<>>,
                           human_escalation_queue |-> <<>>,
                           summary |-> "No findings to validate."],
                      !.needs_reinvestigation = FALSE]
                /\ total_usage' = total_usage
                /\ hist' = [hist EXCEPT !.critics = @ + 1, !.critic = "empty"]
           ELSE \E x1 \in CriticExchanges(providers) :
       \E x2 \in {x1} :
                   LET j == call_llm_json(providers, current_idx, x1, x2)
                   IN  /\ total_usage' = usage_after_calls(total_usage, j.calls)
                       /\ hist' = [hist EXCEPT
                                     !.critics = @ + 1,
                                     !.critic = IF j.ok THEN "verdict" ELSE j.error]
                       /\ IF j.ok
                          THEN state' = [state EXCEPT
                                 !.critic_result = j.result,
                                 !.needs_reinvestigation =
                                     needs_reinvestigation(j.result),
                                 !.human_escalation_queue =
                                     Get(j.result, "human_escalation_queue", <<>>),
                                 !.research_path = state.research_path \o <<"critic">>]
                          ELSE state' = [state EXCEPT
                                 !.critic_result =
                                     [validated_findings |-> <<>>,
                                      summary |-> "Validation failed"],
                                 !.needs_reinvestigation = FALSE,
                                 !.errors = state.errors \o <<Entry("critic", "Critic agent error")>>]
    /\ pc' = "route"
    /\ UNCHANGED <<settings, providers, current_idx, fnVars, runVars, lastOuts, lastCall, ncalls,
                   redis, feedback_memory, task, active, requested, store,
                   ret, exc>>

\* a plausible slip: the bound is tested with <= instead of <
reinvestigate_inclusive(st) ==
    st.needs_reinvestigation /\ st.iteration_count <= st.max_iterations

\* the condition of _should_reinvestigate
reinvestigate(st) ==
    st.needs_reinvestigation /\ st.iteration_count < st.max_iterations

\* a plausible slip: the counter is not stored back
next_iteration_lost(iteration) == iteration

\* state["iteration_count"] = iteration + 1
next_iteration(iteration) == iteration + 1

\* the "reinvestigate" entry of the conditional edge map of _build_graph
reinvestigate_target == {"forensic"}

\* _should_reinvestigate and the conditional edge taken after the critic
should_reinvestigate ==
    /\ pc = "route"
    /\ IF reinvestigate(state)
       THEN /\ state' = [state EXCEPT
                           !.iteration_count = next_iteration(state.iteration_count)]
            /\ requested' = Named(state.critic_result)
            /\ Dispatch(reinvestigate_target)
            /\ hist' = [hist EXCEPT !.phases = @ + 1, !.reinvestigations = @ + 1]
       ELSE /\ pc' = "report"
            /\ UNCHANGED <<state, requested, task, active, hist>>
    /\ UNCHANGED <<llmVars, fnVars, runVars, redis, feedback_memory, store, ret, exc>>

\* the weights of _generate_report, in hundredths
Weight(t) ==
    CASE t = "forensic" -> 35
      [] t = "management" -> 30
      [] t = "rpt" -> 35
      [] t = "market_intel" -> 20

\* the risk a task's score stands for: quality and sentiment are inverted
Risk(t, score) == IF t \in {"management", "market_intel"} THEN 100 - score ELSE score

\* the tasks whose score is taken: if state.get(key) is true of a
\* non-zero number only
Scored(st) == {t \in Tasks : st[ScoreKey(t)] # 0}

RECURSIVE SumOver(_, _)
SumOver(S, f) ==
    IF S = {} THEN 0
    ELSE LET x == CHOOSE y \in S : TRUE IN f[x] + SumOver(S \ {x}, f)

\* round(n / d, 1) in tenths, halves to the even digit
Round1(n, d) ==
    LET q == (10 * n) \div d
        r == (10 * n) % d
    IN  IF 2 * r > d \/ (2 * r = d /\ q % 2 = 1) THEN q + 1 ELSE q

\* overall_risk_score of _generate_report, in tenths
overall_risk(st) ==
    LET S == Scored(st)
    IN  IF S = {} THEN 500
        ELSE Round1(SumOver(S, [t \in S |-> Risk(t, st[ScoreKey(t)]) * Weight(t)]),
                    SumOver(S, [t \in S |-> Weight(t)]))

\* _risk_level, on a score in tenths
risk_level(score) ==
    IF score >= 750 THEN "CRITICAL"
    ELSE IF score >= 550 THEN "HIGH"
    ELSE IF score >= 350 THEN "MODERATE"
    ELSE "LOW"

CountSeverity(fs, sev) == Cardinality({i \in 1..Len(fs) : fs[i].severity = sev})

\* _generate_report
generate_report ==
    /\ pc = "report"
    /\ LET score == overall_risk(state)
           fs == state.all_findings
       IN  state' = [state EXCEPT
              !.overall_risk_score = score,
              !.report =
                 [ticker |-> "TICKER",
                  company_name |-> "TICKER",
                  sector |-> "",
                  overall_risk_score |-> score,
                  risk_level |-> risk_level(score),
                  summary |-> [t \in Tasks |-> state[SummaryKey(t)]],
                  scores |-> [t \in Tasks |-> state[ScoreKey(t)]],
                  findings_count |-> Len(fs),
                  critical_findings |-> CountSeverity(fs, "critical"),
                  high_findings |-> CountSeverity(fs, "high"),
                  findings |-> fs,
                  management_key_concerns |-> state.management_key_concerns,
                  critic_summary |-> Get(state.critic_result, "summary", ""),
                  errors |-> state.errors],
              !.status = "complete"]
    /\ pc' = "finish"
    /\ UNCHANGED <<llmVars, fnVars, runVars, redis, feedback_memory, task, active, requested,
                   store, ret, exc, hist>>

\* analyze after graph.invoke returned: the findings and the status are stored
analyze_end ==
    /\ pc = "finish"
    /\ LET findings == Get(state.report, "findings", <<>>)
       IN  store' = store \o [i \in 1..Len(findings) |-> StoreOp("store_finding", "-")]
                          \o <<StoreOp("update_analysis_status", "complete")>>
    /\ ret' = state.report
    /\ pc' = "returned"
    /\ UNCHANGED <<llmVars, fnVars, runVars, redis, feedback_memory, state, task, active,
                   requested, exc, hist>>

\* a plausible slip: the except branch hands out what the run had so far
error_report_partial(e, st) ==
    [ticker |-> "TICKER", error |-> e, status |-> "failed",
     analysis_id |-> "id", findings |-> st.all_findings,
     overall_risk_score |-> st.overall_risk_score]

\* the dict returned by the except branch of analyze
error_report(e, st) ==
    [ticker |-> "TICKER", error |-> e, status |-> "failed", analysis_id |-> "id"]

\* the except branch of analyze
analyze_except ==
    /\ pc = "except"
    /\ store' = store \o <<StoreOp("update_analysis_status", "failed")>>
    /\ ret' = error_report(exc, state)
    /\ pc' = "returned"
    /\ UNCHANGED <<llmVars, fnVars, runVars, redis, feedback_memory, state, task, active,
                   requested, exc, hist>>

-----------------------------------------------------------------------------
(* Specifications *)

WfInit ==
    /\ pc = "idle"
    /\ state = initial_state
    /\ task = [t \in Tasks |-> Idle]
    /\ active = {}
    /\ requested = {}
    /\ store = <<>>
    /\ ret = <<>>
    /\ exc = "-"
    /\ hist = [phases |-> 0, aggregates |-> 0, critics |-> 0, reinvestigations |-> 0,
               fetch_raised |-> FALSE, memory_raised |-> FALSE,
               cache |-> "-", critic |-> "-"]

LlmInit(cfgs) ==
    /\ settings \in cfgs
    /\ providers = build_provider_chain(settings)
    /\ current_idx = 0
    /\ total_usage = [input |-> 0, output |-> 0, calls |-> 0]
    /\ lastOuts = <<>>
    /\ lastCall = NoCall
    /\ ncalls = 0

Unconfigured == [google_api_key |-> FALSE, antigravity_enabled |-> FALSE,
                 openrouter_api_key |-> FALSE]
Configured == [google_api_key |-> TRUE, antigravity_enabled |-> TRUE,
               openrouter_api_key |-> TRUE]

\* The collaborators (cache, feedback memory) are explored with no provider
\* configured, the agents' answers with every provider configured and
\* without cache and feedback memory.
\* no thread is inside LLMProvider.call, run_analysis has not been called
RunIdle ==
    /\ callers = [c \in Callers |-> CallerIdle]
    /\ mvp = [pc |-> "-"]

\* no function is being applied on its own
FnIdle ==
    /\ args = [fn |-> "-"]
    /\ returned = [fn |-> "-"]

Init ==
    /\ FnIdle
    /\ \/ /\ LlmInit({Unconfigured})
          /\ redis \in BOOLEAN
          /\ feedback_memory \in BOOLEAN
       \/ /\ LlmInit({Configured})
          /\ redis = FALSE
          /\ feedback_memory = FALSE
    /\ WfInit
    /\ RunIdle

Next ==
    \/ analyze_begin
    \/ fetch_data
    \/ load_memory
    \/ \E t \in TryAgents : agent_analyze(t)
    \/ \E t \in TryAgents : agent_write(t)
    \/ market_intel_analyze
    \/ aggregate_findings
    \/ critic_analyze
    \/ should_reinvestigate
    \/ generate_report
    \/ analyze_end
    \/ analyze_except

Spec == Init /\ [][Next]_vars

\* one LLMProvider.call of a sequence of calls on one client
llm_call ==
    /\ ncalls < MaxCalls
    /\ \E outs \in OutcomeVectors(providers), tin, tout \in 1..MaxTokens :
          LET r == call(providers, current_idx, outs,
                        [content |-> [form |-> "json", payload |-> <<>>],
                         input_tokens |-> tin, output_tokens |-> tout])
          IN  /\ lastOuts' = outs
              /\ lastCall' = r
              /\ total_usage' = usage_after(total_usage, r)
    /\ ncalls' = ncalls + 1
    /\ UNCHANGED <<settings, providers, current_idx, wfVars, fnVars, runVars>>

InitLLM ==
    /\ FnIdle
    /\ LlmInit(Configs)
    /\ redis = FALSE
    /\ feedback_memory = FALSE
    /\ WfInit
    /\ RunIdle

NextLLM == llm_call

SpecLLM == InitLLM /\ [][NextLLM]_vars

-----------------------------------------------------------------------------
(* BaseAgent's functions applied on their own *)

\* the response texts: every form, one value
FnContents == {[form |-> f, payload |-> Payload("forensic", <<RawFine>>, 80)] :
                  f \in Forms}

\* one request as the providers answer it, with any text
FnExchanges(provs) ==
    {[outs |-> o,
      resp |-> [content |-> c, input_tokens |-> 1, output_tokens |-> 1]] :
        o \in OutcomeVectors(provs), c \in FnContents}

\* raw finding records as an LLM may write them: any field may be missing,
\* the severity in any case or not one of the four, or null, the confidence
\* inside or outside 0..100, a requires_human_review of the model's own
RawKeys == {"finding_type", "severity", "confidence", "evidence",
            "requires_human_review"}
RawValues ==
    [finding_type : {"revenue_quality"},
     severity : {"critical", "CRITICAL", "High", "low", "extreme", "NULL"},
     confidence : {0 - 5, 40, 69, 70, 85, 90, 150},
     evidence : {<<"e">>},
     requires_human_review : BOOLEAN]
RawRecords ==
    {[k \in has \cup {"title"} |-> IF k = "title" THEN "x" ELSE v[k]] :
        has \in SUBSET RawKeys, v \in RawValues}

\* the records the longer lists are made of
SampleRecords ==
    {[title |-> "x", confidence |-> 85, severity |-> "High"],
     [title |-> "x", confidence |-> 40],
     [title |-> "x", confidence |-> 90, severity |-> "critical",
      requires_human_review |-> FALSE]}

RawLists ==
    {<<>>} \cup {<<r>> : r \in RawRecords}
        \cup UNION {[1..n -> SampleRecords] : n \in 2..MaxRecords}

FnInputs(provs) ==
    {[fn |-> "parse_json_response", content |-> c] : c \in FnContents}
    \cup {[fn |-> "call_llm_json", x1 |-> x1, x2 |-> x2] :
             x1 \in FnExchanges(provs), x2 \in FnExchanges(provs)}
    \cup {[fn |-> "extract_findings", agent_name |-> t,
           result |-> [findings |-> fs]] :
             t \in {"forensic"}, fs \in RawLists}
    \cup {[fn |-> "extract_findings", agent_name |-> "rpt",
           result |-> [summary |-> "s"]]}

apply_parse_json_response ==
    /\ args.fn = "parse_json_response"
    /\ returned.fn = "-"
    /\ returned' = [fn |-> args.fn, value |-> parse_json_response(args.content)]
    /\ UNCHANGED <<llmVars, wfVars, runVars, args>>

apply_call_llm_json ==
    /\ args.fn = "call_llm_json"
    /\ returned.fn = "-"
    /\ returned' = [fn |-> args.fn,
                    value |-> call_llm_json(providers, current_idx,
                                            args.x1, args.x2)]
    /\ UNCHANGED <<llmVars, wfVars, runVars, args>>

\* _extract_findings, the assignment of its result to the agent's findings
\* field and the aggregate over the four fields
apply_extract_findings ==
    /\ args.fn = "extract_findings"
    /\ returned.fn = "-"
    /\ returned' =
          IF extract_raises(args.result)
          THEN [fn |-> args.fn, raised |-> TRUE]
          ELSE LET fs == extract_findings(args.agent_name, args.result)
               IN  [fn |-> args.fn, raised |-> FALSE, findings |-> fs,
                    all_findings |->
                        aggregate([initial_state EXCEPT
                                      ![FindingsKey(args.agent_name)] = fs])]
    /\ UNCHANGED <<llmVars, wfVars, runVars, args>>

\* a chain of two providers
Paired == [google_api_key |-> TRUE, antigravity_enabled |-> FALSE,
           openrouter_api_key |-> TRUE]

InitAgent ==
    /\ LlmInit({Paired})
    /\ redis = FALSE
    /\ feedback_memory = FALSE
    /\ WfInit
    /\ RunIdle
    /\ args \in FnInputs(providers)
    /\ returned = [fn |-> "-"]

NextAgent ==
    \/ apply_parse_json_response
    \/ apply_call_llm_json
    \/ apply_extract_findings

SpecAgent == InitAgent /\ [][NextAgent]_vars

-----------------------------------------------------------------------------
(* calculate_adjusted_confidence (src/src/memory/confidence.py) *)

\* Similarity scores are in hundredths.  The adjustment and the adjusted
\* confidence are exact fractions of percentage points over one denominator,
\* 100 * len(similar_approved) * len(similar_rejected) with an empty list
\* counting as 1.
Min(a, b) == IF a <= b THEN a ELSE b
Max(a, b) == IF a >= b THEN a ELSE b

Denominator(similar_approved, similar_rejected) ==
    100 * Max(1, Len(similar_approved)) * Max(1, Len(similar_rejected))

\* sum(f.get("score", 0.7) for f in matches), in hundredths
RECURSIVE SumScores(_)
SumScores(matches) ==
    IF matches = <<>> THEN 0
    ELSE Get(Head(matches), "score", 70) + SumScores(Tail(matches))

\* min(cap, avg_sim * factor) * 100 as a numerator over den; cap and factor
\* in hundredths.  den is a multiple of 100 * Len(matches): the division is
\* exact.
similarity_term(cap, factor, matches, den) ==
    IF matches = <<>> THEN 0
    ELSE Min(cap * den, (factor * SumScores(matches) * den) \div (100 * Len(matches)))

\* boost = min(0.20, avg_sim * 0.25)
boost(similar_approved, den) == similarity_term(20, 25, similar_approved, den)

\* a plausible slip: the penalty uses the constants of the boost
penalty_as_boost(similar_rejected, den) ==
    similarity_term(20, 25, similar_rejected, den)

\* penalty = min(0.30, avg_sim * 0.35)
penalty(similar_rejected, den) == similarity_term(30, 35, similar_rejected, den)

\* pattern_boost = min(0.15, len(matching_patterns) * 0.05)
pattern_boost(matching_patterns, den) ==
    IF matching_patterns = <<>> THEN 0
    ELSE Min(15, 5 * Len(matching_patterns)) * den

\* a plausible slip: the adjusted value is returned as computed
clamp_missing(x, lo, hi) == x

\* max(lo, min(hi, x))
clamp(x, lo, hi) == Max(lo, Min(hi, x))

\* (adjusted, adjustment * 100), both as numerators over den
calculate_adjusted_confidence(base_confidence, similar_approved, similar_rejected, matching_patterns) ==
    LET den == Denominator(similar_approved, similar_rejected)
        adjustment == boost(similar_approved, den)
                        - penalty(similar_rejected, den)
                        + pattern_boost(matching_patterns, den)
    IN  [adjusted |-> clamp(base_confidence * den + adjustment, 0, 100 * den),
         delta    |-> adjustment,
         den      |-> den]

\* the matches drawn: similarity 0.01, 0.9, 3.0, or no score
Matches == {[score |-> 1], [score |-> 90], [score |-> 300], [id |-> "m"]}

MatchLists == UNION {[1..n -> Matches] : n \in 0..MaxMatches}

\* no pattern, one, or enough to reach the cap
PatternLists == {<<>>, <<"p">>, <<"p", "p", "p", "p">>}

BaseConfidences == {0 - 1000, 0 - 1, 0, 60, 98, 100, 1000}

ConfidenceInputs ==
    {[fn |-> "calculate_adjusted_confidence", base_confidence |-> b,
      similar_approved |-> ap, similar_rejected |-> rj,
      matching_patterns |-> pt] :
        b \in BaseConfidences, ap \in MatchLists, rj \in MatchLists,
        pt \in PatternLists}

apply_calculate_adjusted_confidence ==
    /\ args.fn = "calculate_adjusted_confidence"
    /\ returned.fn = "-"
    /\ returned' =
          [fn |-> args.fn,
           value |-> calculate_adjusted_confidence(
                         args.base_confidence, args.similar_approved,
                         args.similar_rejected, args.matching_patterns)]
    /\ UNCHANGED <<llmVars, wfVars, runVars, args>>

InitConfidence ==
    /\ LlmInit({Unconfigured})
    /\ redis = FALSE
    /\ feedback_memory = FALSE
    /\ WfInit
    /\ RunIdle
    /\ args \in ConfidenceInputs
    /\ returned = [fn |-> "-"]

NextConfidence == apply_calculate_adjusted_confidence

SpecConfidence == InitConfidence /\ [][NextConfidence]_vars

-----------------------------------------------------------------------------
(* LLMProvider.call entered by several threads: the usage counters *)

\* the counter an augmented assignment of call is about, by the caller's
\* position, and the amount it adds
CounterAt(at) ==
    CASE at \in {"read_input", "write_input"} -> "input"
      [] at \in {"read_output", "write_output"} -> "output"
      [] at \in {"read_calls", "write_calls"} -> "calls"

Amount(c) ==
    CASE callers[c].pc = "write_input" -> callers[c].response.input_tokens
      [] callers[c].pc = "write_output" -> callers[c].response.output_tokens
      [] callers[c].pc = "write_calls" -> 1

\* the statement that follows a store into a counter
AfterWrite(at) ==
    CASE at = "write_input" -> "read_output"
      [] at = "write_output" -> "read_calls"
      [] at = "write_calls" -> "idle"

\* a thread enters call and walks the chain: a provider answers, or every
\* provider fails and LLMProviderError is raised with no counter touched
call_enter(c) ==
    /\ callers[c].pc = "idle"
    /\ ncalls < MaxCalls
    /\ \E outs \in OutcomeVectors(providers), tin, tout \in 1..MaxTokens :
          LET r == call(providers, current_idx, outs,
                        [content |-> [form |-> "json", payload |-> <<>>],
                         input_tokens |-> tin, output_tokens |-> tout])
          IN  callers' = [callers EXCEPT ![c] =
                  IF r.ok
                  THEN [@ EXCEPT !.pc = "read_input",
                                 !.response = [input_tokens |-> r.response.input_tokens,
                                               output_tokens |-> r.response.output_tokens]]
                  ELSE [@ EXCEPT !.raised = @ + 1]]
    /\ ncalls' = ncalls + 1
    /\ UNCHANGED <<settings, providers, current_idx, total_usage, lastOuts, lastCall,
                   wfVars, fnVars, mvp>>

\* self._total_usage[k] += n, first half: the current value is loaded
usage_read(c) ==
    /\ callers[c].pc \in {"read_input", "read_output", "read_calls"}
    /\ callers' = [callers EXCEPT ![c] =
          [@ EXCEPT !.read = total_usage[CounterAt(callers[c].pc)],
                    !.pc = CASE callers[c].pc = "read_input" -> "write_input"
                             [] callers[c].pc = "read_output" -> "write_output"
                             [] callers[c].pc = "read_calls" -> "write_calls"]]
    /\ UNCHANGED <<llmVars, wfVars, fnVars, mvp>>

\* second half: the sum is stored; after the third counter call returns the
\* response
usage_write(c) ==
    /\ callers[c].pc \in {"write_input", "write_output", "write_calls"}
    /\ total_usage' = [total_usage EXCEPT
                          ![CounterAt(callers[c].pc)] = callers[c].read + Amount(c)]
    /\ callers' = [callers EXCEPT ![c] =
          [@ EXCEPT !.pc = AfterWrite(callers[c].pc),
                    !.read = 0,
                    !.served =
                       IF callers[c].pc = "write_calls"
                       THEN [input |-> @.input + callers[c].response.input_tokens,
                             output |-> @.output + callers[c].response.output_tokens,
                             calls |-> @.calls + 1]
                       ELSE @]]
    /\ UNCHANGED <<settings, providers, current_idx, lastOuts, lastCall, ncalls,
                   wfVars, fnVars, mvp>>

InitUsage ==
    /\ FnIdle
    /\ LlmInit({Paired})
    /\ redis = FALSE
    /\ feedback_memory = FALSE
    /\ WfInit
    /\ RunIdle

NextUsage ==
    \/ \E c \in Callers : call_enter(c)
    \/ \E c \in Callers : usage_read(c)
    \/ \E c \in Callers : usage_write(c)

SpecUsage == InitUsage /\ [][NextUsage]_vars

-----------------------------------------------------------------------------
(* FeedbackMemory.retrieve_relevant_feedback, applied on its own *)

\* the four lists of a context, in the order the searches are made
ContextKeys == <<"company_specific_insights", "sector_patterns",
                 "approved_patterns", "rejected_patterns">>

\* FeedbackMemory._empty_context
empty_context == [k \in Range(ContextKeys) |-> <<>>]

\* a plausible slip: each search is guarded on its own and a failed search
\* empties its own list only
search_results_partial(searches) ==
    [k \in Range(ContextKeys) |->
        LET i == CHOOSE j \in 1..4 : ContextKeys[j] = k
        IN  IF searches[i].raised THEN <<>> ELSE searches[i].hits]

\* the four searches share one try: any of them raising gives the empty
\* context, otherwise each list is what its search returned
search_results(searches) ==
    IF \E i \in 1..4 : searches[i].raised
    THEN empty_context
    ELSE [k \in Range(ContextKeys) |->
             searches[CHOOSE j \in 1..4 : ContextKeys[j] = k].hits]

\* retrieve_relevant_feedback: what it returns, and whether it raised
retrieve_relevant_feedback(embed, searches) ==
    IF embed = "error"
    THEN [raised |-> FALSE, value |-> empty_context]
    ELSE [raised |-> FALSE, value |-> search_results(searches)]

\* format_memory_context: the approved patterns are not printed
format_memory_context(memory_data) ==
    IF /\ memory_data.company_specific_insights = <<>>
       /\ memory_data.sector_patterns = <<>>
       /\ memory_data.rejected_patterns = <<>>
    THEN NoFeedback
    ELSE "### Past feedback"

\* what the embedder does and what each Qdrant search does: it raises, finds
\* nothing, or finds one stored feedback
SearchOutcomes ==
    {[raised |-> TRUE, hits |-> <<>>],
     [raised |-> FALSE, hits |-> <<>>],
     [raised |-> FALSE, hits |-> <<[content |-> "c", validation_status |-> "approved"]>>]}

FeedbackInputs ==
    {[fn |-> "retrieve_relevant_feedback", embed |-> e, searches |-> q] :
        e \in {"ok", "error"}, q \in [1..4 -> SearchOutcomes]}

\* the call made by _load_memory, and the text it formats from the result
apply_retrieve_relevant_feedback ==
    /\ args.fn = "retrieve_relevant_feedback"
    /\ returned.fn = "-"
    /\ LET r == retrieve_relevant_feedback(args.embed, args.searches)
       IN  returned' = [fn |-> args.fn, raised |-> r.raised, value |-> r.value,
                        memory_context |-> format_memory_context(r.value)]
    /\ UNCHANGED <<llmVars, wfVars, runVars, args>>

InitFeedback ==
    /\ LlmInit({Unconfigured})
    /\ redis = FALSE
    /\ feedback_memory = TRUE
    /\ WfInit
    /\ RunIdle
    /\ args \in FeedbackInputs
    /\ returned = [fn |-> "-"]

NextFeedback == apply_retrieve_relevant_feedback

SpecFeedback == InitFeedback /\ [][NextFeedback]_vars

-----------------------------------------------------------------------------
(* run_analysis of mvp_run.py: the agents one after the other *)

\* d[k] = v on a dict, and d.update(e)
Put(d, k, v) == [x \in DOMAIN d \cup {k} |-> IF x = k THEN v ELSE d[x]]
Update(d, e) == [x \in DOMAIN d \cup DOMAIN e |-> IF x \in DOMAIN e THEN e[x] ELSE d[x]]

\* f"{agent_name}_risk_score"
RiskKey(t) ==
    CASE t = "forensic" -> "forensic_risk_score"
      [] t = "management" -> "management_risk_score"
      [] t = "rpt" -> "rpt_risk_score"
      [] t = "market_intel" -> "market_intel_risk_score"

\* weights of run_analysis, in hundredths
MvpWeight(t) ==
    CASE t = "forensic" -> 35
      [] t = "management" -> 25
      [] t = "rpt" -> 25
      [] t = "market_intel" -> 15

\* the order of the list agents, and the agent after t
AgentOrder == <<"forensic", "management", "rpt", "market_intel">>
AfterAgent(t) ==
    CASE t = "forensic" -> "management"
      [] t = "management" -> "rpt"
      [] t = "rpt" -> "market_intel"
      [] t = "market_intel" -> "critic"

\* the LLM results drawn for agent t in the runner
MvpPayloads(t) ==
    CASE t = "forensic" -> {Payload(t, <<RawFine>>, 75), Payload(t, <<>>, 40)}
      [] t = "management" -> {Payload(t, <<RawFine>>, 15), Payload(t, <<>>, 60)}
      [] t = "rpt" -> {Payload(t, <<>>, 85)}
      [] t = "market_intel" -> {Payload(t, <<>>, 92), Payload(t, <<RawNull>>, 92)}

\* the assignments of the try branch and of the except branch of
\* ForensicAccountingAgent / ManagementIntegrityAgent / RPTAgent .analyze on
\* a dict that need not hold the keys yet
agent_assigns(st, t, j) ==
    IF j.ok /\ ~extract_raises(j.result)
    THEN LET s1 == Update(st,
                     [k \in {FindingsKey(t), SummaryKey(t), ScoreKey(t), "research_path"} |->
                        CASE k = FindingsKey(t) -> extract_findings(t, j.result)
                          [] k = SummaryKey(t) -> Get(j.result, "summary", "Analysis complete.")
                          [] k = ScoreKey(t) -> Get(j.result, ResultScoreKey(t), 50)
                          [] k = "research_path" -> Get(st, "research_path", <<>>) \o <<t>>])
         IN  IF t = "management"
             THEN Put(s1, "management_key_concerns", Get(j.result, "key_concerns", <<>>))
             ELSE IF t = "rpt"
             THEN Put(Put(s1, "rpt_total_amount", Get(j.result, "total_rpt_amount", "N/A")),
                      "rpt_pct_revenue", Get(j.result, "rpt_as_pct_revenue", "N/A"))
             ELSE s1
    ELSE LET s1 == Update(st,
                     [k \in {FindingsKey(t), SummaryKey(t), ScoreKey(t), "errors"} |->
                        CASE k = FindingsKey(t) -> <<>>
                          [] k = SummaryKey(t) -> "Analysis failed"
                          [] k = ScoreKey(t) -> 0
                          [] k = "errors" -> Get(st, "errors", <<>>) \o <<ErrorEntry(t)>>])
         IN  IF t = "management" THEN Put(s1, "management_key_concerns", <<>>) ELSE s1

\* storage.store_finding for each finding of the agent
StoreFindings(fs) == [i \in 1..Len(fs) |-> StoreOp("store_finding", "-")]

\* run_analysis up to the loop over the agents
run_analysis_begin ==
    /\ mvp.pc = "-"
    /\ mvp' = [pc |-> "forensic",
               state |-> [company_data |-> "seed",
                          memory_context |-> "No prior feedback available (first analysis)."],
               results |-> <<>>,
               own |-> <<>>,
               all_findings |-> <<>>,
               critic_state |-> <<>>,
               narrative_state |-> <<>>,
               narrative_report |-> "",
               report |-> <<>>,
               storage |-> <<StoreOp("create_analysis", "-"), StoreOp("save_raw_data", "-")>>,
               failed |-> {}]
    /\ UNCHANGED <<llmVars, wfVars, fnVars, callers>>

\* one turn of the loop for forensic, management or rpt: analyze returns the
\* dict it was given, so results[name] is the shared state itself
mvp_agent(t) ==
    /\ t \in TryAgents
    /\ mvp.pc = t
    /\ \E x1 \in Exchanges(providers, MvpPayloads(t)) :
       \E x2 \in {x1} :
          LET j == call_llm_json(providers, current_idx, x1, x2)
              s1 == agent_assigns(mvp.state, t, j)
              agent_findings == Get(s1, FindingsKey(t), <<>>)
              s2 == IF t = "management"
                    THEN Put(s1, "management_risk_score",
                             100 - Get(s1, "management_quality_score", 50))
                    ELSE s1
          IN  /\ total_usage' = usage_after_calls(total_usage, j.calls)
              /\ mvp' = [mvp EXCEPT
                    !.pc = AfterAgent(t),
                    !.state = s2,
                    !.results = Put(mvp.results, t, "state"),
                    !.all_findings = @ \o agent_findings,
                    !.storage = @ \o StoreFindings(agent_findings),
                    !.failed = IF j.ok /\ ~extract_raises(j.result) THEN @ ELSE @ \cup {t}]
    /\ UNCHANGED <<settings, providers, current_idx, lastOuts, lastCall, ncalls,
                   wfVars, fnVars, callers>>

\* the turn of the loop for market_intel: a failed call returns the shared
\* state, a raising _extract_findings reaches the except of the loop, a
\* success returns a dict of its own
mvp_market_intel ==
    /\ mvp.pc = "market_intel"
    /\ \E x1 \in Exchanges(providers, MvpPayloads("market_intel")) :
       \E x2 \in {x1} :
          LET j == call_llm_json(providers, current_idx, x1, x2)
              t == "market_intel"
          IN  /\ total_usage' = usage_after_calls(total_usage, j.calls)
              /\ IF ~j.ok
                 THEN mvp' = [mvp EXCEPT
                        !.pc = "critic",
                        !.results = Put(mvp.results, t, "state"),
                        !.all_findings = @ \o Get(mvp.state, FindingsKey(t), <<>>),
                        !.storage = @ \o StoreFindings(Get(mvp.state, FindingsKey(t), <<>>)),
                        !.state = Put(mvp.state, RiskKey(t),
                                      100 - Get(mvp.state, "market_sentiment_score", 50)),
                        !.failed = @ \cup {t}]
                 ELSE IF extract_raises(j.result)
                 THEN mvp' = [mvp EXCEPT !.pc = "critic", !.failed = @ \cup {t}]
                 ELSE LET fs == extract_findings(t, j.result)
                          sentiment == Get(j.result, ResultScoreKey(t), 50)
                      IN  mvp' = [mvp EXCEPT
                             !.pc = "critic",
                             !.results = Put(mvp.results, t, "own"),
                             !.own = [market_intel_findings |-> fs,
                                      market_intel_summary |->
                                          Get(j.result, "summary", "Analysis failed."),
                                      market_sentiment_score |-> sentiment,
                                      market_intel_risk_score |-> 100 - sentiment],
                             !.all_findings = @ \o fs,
                             !.storage = @ \o StoreFindings(fs)]
    /\ UNCHANGED <<settings, providers, current_idx, lastOuts, lastCall, ncalls,
                   wfVars, fnVars, callers>>

\* the dict a name of results refers to
Deref(m, ref) ==
    CASE ref = "state" -> m.state
      [] ref = "own" -> m.own
      [] ref = "critic_state" -> m.critic_state

\* results.get(name, {}).get(key, default)
ResultGet(m, name, key, default) ==
    IF name \in DOMAIN m.results
    THEN Get(Deref(m, m.results[name]), key, default)
    ELSE default

\* the critic_state dict built by run_analysis
build_critic_state(m) ==
    [k \in {"company_data", "all_findings", "memory_context"}
             \cup {FindingsKey(t) : t \in Tasks}
             \cup {SummaryKey(t) : t \in Tasks}
             \cup {RiskKey(t) : t \in Tasks} |->
        IF k = "company_data" THEN "seed"
        ELSE IF k = "all_findings" THEN m.all_findings
        ELSE IF k = "memory_context" THEN "First analysis."
        ELSE LET t == CHOOSE u \in Tasks : k \in {FindingsKey(u), SummaryKey(u), RiskKey(u)}
             IN  IF k = FindingsKey(t) THEN ResultGet(m, t, k, <<>>)
                 ELSE IF k = SummaryKey(t) THEN ResultGet(m, t, k, "")
                 ELSE ResultGet(m, t, k, 0)]

\* the verdict drawn for the critic in the runner
MvpVerdicts == {[reinvestigation_requests |-> <<>>, summary |-> "Validation complete."]}

\* critic.analyze(critic_state): it returns the dict it was given
mvp_critic ==
    /\ mvp.pc = "critic"
    /\ LET cs == build_critic_state(mvp)
       IN  IF cs.all_findings = <<>>
           THEN /\ mvp' = [mvp EXCEPT
                     !.pc = "narrative",
                     !.critic_state =
                         Update(cs, [critic_result |->
                                        [validated_findings |-> <<>>,
                                         reinvestigation_requests |-> <<>>,
                                         human_escalation_queue |-> <<>>,
                                         summary |-> "No findings to validate."],
                                     needs_reinvestigation |-> FALSE]),
                     !.results = Put(mvp.results, "critic", "critic_state")]
                /\ total_usage' = total_usage
           ELSE \E x1 \in Exchanges(providers, MvpVerdicts) :
                \E x2 \in {x1} :
                   LET j == call_llm_json(providers, current_idx, x1, x2)
                   IN  /\ total_usage' = usage_after_calls(total_usage, j.calls)
                       /\ mvp' = [mvp EXCEPT
                            !.pc = "narrative",
                            !.critic_state =
                               IF j.ok
                               THEN Update(cs,
                                      [critic_result |-> j.result,
                                       needs_reinvestigation |->
                                           needs_reinvestigation(j.result),
                                       human_escalation_queue |->
                                           Get(j.result, "human_escalation_queue", <<>>),
                                       research_path |-> <<"critic">>])
                               ELSE Update(cs,
                                      [critic_result |->
                                           [validated_findings |-> <<>>,
                                            summary |-> "Validation failed"],
                                       needs_reinvestigation |-> FALSE,
                                       errors |-> <<Entry("critic", "Critic agent error")>>]),
                            !.results = Put(mvp.results, "critic", "critic_state")]
    /\ UNCHANGED <<settings, providers, current_idx, lastOuts, lastCall, ncalls,
                   wfVars, fnVars, callers>>

NarrativeError == "Narrative generation failed"

\* a plausible slip: the except branch sets the text and records nothing
narrative_failure_unrecorded(st) == Put(st, "narrative_report", NarrativeError)

\* the except branch of NarrativeAgent.analyze
narrative_failure(st) ==
    Put(Put(st, "narrative_report", NarrativeError),
        "errors", Get(st, "errors", <<>>) \o <<Entry("narrative", "Narrative error")>>)

\* NarrativeAgent.analyze on a copy of critic_state, and the text
\* run_analysis takes from what it returns
mvp_narrative ==
    /\ mvp.pc = "narrative"
    /\ \E outs \in WorkflowOutcomes(providers) :
          LET r == call(providers, current_idx, outs,
                        [content |-> "story", input_tokens |-> 1, output_tokens |-> 1])
              ns == Put(Put(mvp.critic_state, "critic_summary",
                            ResultGet(mvp, "critic", "critic_summary", "")),
                        "all_findings", mvp.all_findings)
              narrative_result == IF r.ok THEN Put(ns, "narrative_report", r.response.content)
                                  ELSE narrative_failure(ns)
          IN  /\ total_usage' = usage_after(total_usage, r)
              /\ mvp' = [mvp EXCEPT
                    !.pc = "report",
                    !.narrative_state = narrative_result,
                    !.narrative_report =
                        Get(narrative_result, "narrative_report", "Story generation failed."),
                    !.failed = IF r.ok THEN @ ELSE @ \cup {"narrative"}]
    /\ UNCHANGED <<settings, providers, current_idx, lastOuts, lastCall, ncalls,
                   wfVars, fnVars, callers>>

\* risk_scores: for every agent, one pair per value of results that holds the
\* agent's risk key; the pairs are summed as score * weight and weight
RiskPairs(m) ==
    {<<t, n>> \in Tasks \X DOMAIN m.results : RiskKey(t) \in DOMAIN Deref(m, m.results[n])}

weighted_sum(m) ==
    SumOver(RiskPairs(m),
            [q \in RiskPairs(m) |-> Deref(m, m.results[q[2]])[RiskKey(q[1])] * MvpWeight(q[1])])

weight_sum(m) == SumOver(RiskPairs(m), [q \in RiskPairs(m) |-> MvpWeight(q[1])])

\* the risk level of run_analysis, tested on overall_risk as computed
\* (the quotient weighted_sum / weight_sum, not rounded)
mvp_risk_level(num, den) ==
    IF num >= 75 * den THEN "CRITICAL"
    ELSE IF num >= 55 * den THEN "HIGH"
    ELSE IF num >= 35 * den THEN "MODERATE"
    ELSE "LOW"

\* the overall risk, the level and the report of run_analysis; the score of
\* the report is round(overall_risk, 1), kept in tenths
mvp_report ==
    /\ mvp.pc = "report"
    /\ LET num == weighted_sum(mvp)
           den == weight_sum(mvp)
           fs == mvp.all_findings
       IN  mvp' = [mvp EXCEPT
              !.pc = "done",
              !.report =
                 [ticker |-> "TICKER",
                  overall_risk_score |-> IF den = 0 THEN 0 ELSE Round1(num, den),
                  risk_level |-> IF den = 0 THEN "LOW" ELSE mvp_risk_level(num, den),
                  findings_count |-> Len(fs),
                  critical_findings |-> CountSeverity(fs, "critical"),
                  high_findings |-> CountSeverity(fs, "high"),
                  findings |-> fs,
                  scores |-> [t \in TryAgents |-> ResultGet(mvp, t, RiskKey(t), 0)],
                  summary |-> [t \in TryAgents |-> ResultGet(mvp, t, SummaryKey(t), "")],
                  critic_summary |-> ResultGet(mvp, "critic", "critic_summary", ""),
                  narrative_report |-> mvp.narrative_report],
              !.storage = @ \o <<StoreOp("update_analysis_status", "complete"),
                                 StoreOp("save_report", "-")>>]
    /\ UNCHANGED <<llmVars, wfVars, fnVars, callers>>

InitMvp ==
    /\ FnIdle
    /\ LlmInit({Configured})
    /\ redis = FALSE
    /\ feedback_memory = FALSE
    /\ WfInit
    /\ RunIdle

NextMvp ==
    \/ run_analysis_begin
    \/ \E t \in TryAgents : mvp_agent(t)
    \/ mvp_market_intel
    \/ mvp_critic
    \/ mvp_narrative
    \/ mvp_report

SpecMvp == InitMvp /\ [][NextMvp]_vars

-----------------------------------------------------------------------------
(* Properties *)

\* C1: in one run the critic node executes at most max_iterations times,
\* whatever the critic answers.
C1_CriticAtMostMaxIterations == hist.critics <= state.max_iterations

\* what the code bounds instead: max_iterations reinvestigations, hence one
\* validation pass more
CriticRunsBounded == hist.critics <= state.max_iterations + 1

\* C2: after a validation pass the reinvestigate edge is taken exactly when
\* needs_reinvestigation is true and iteration_count < max_iterations;
\* otherwise the proceed edge is taken with the findings untouched, and the
\* report carries the findings that exist at that point.
C2_EdgeTaken ==
    [][/\ pc = "route" =>
            IF state.needs_reinvestigation
               /\ state.iteration_count < state.max_iterations
            THEN pc' = "agents"
            ELSE pc' = "report" /\ state' = state
       /\ pc = "report" =>
            /\ pc' = "finish"
            /\ state'.report.findings = state.all_findings
            /\ state'.all_findings = state.all_findings]_vars

\* the bound is reached while reinvestigation is still requested, and the
\* proceed edge was taken
C2_Witness ==
    /\ pc = "report"
    /\ state.needs_reinvestigation
    /\ state.iteration_count = state.max_iterations

\* C3: taking the reinvestigate edge adds exactly one to iteration_count and
\* nothing else changes it, so the next validation pass reads the new value;
\* iteration_count is the number of reinvestigate edges taken so far and
\* never exceeds max_iterations.
C3_LoopCounter ==
    /\ [](/\ state.iteration_count = hist.reinvestigations
          /\ state.iteration_count <= state.max_iterations)
    /\ [][IF pc = "route" /\ pc' = "agents"
          THEN state'.iteration_count = state.iteration_count + 1
          ELSE state'.iteration_count = state.iteration_count]_vars

\* the third validation pass after a reinvestigation reads the counter at 3
C3_Witness ==
    /\ pc = "route"
    /\ hist.reinvestigations = 3
    /\ state.iteration_count = 3
    /\ hist.critics = 4

\* C4: in a reinvestigation phase the agents dispatched are exactly the tasks
\* the critic's requests name.
C4_RedispatchNamedTasks ==
    (pc = "agents" /\ hist.reinvestigations > 0) => active = requested

\* C5: a task whose LLM call failed leaves an empty findings slot and an entry
\* of its own in the error list of the report, and the run is complete.
C5_FailedTaskRecorded ==
    pc = "finish" =>
        \A t \in Tasks :
            task[t].failed =>
                /\ state[FindingsKey(t)] = <<>>
                /\ \E e \in Range(state.report.errors) : e.source = t
                /\ state.status = "complete"

\* C6: no field of the state is assigned by two agents of the same dispatch
\* phase.
C6_DisjointWrites ==
    \A t, u \in active :
        t # u => task[t].wrote \cap task[u].wrote = {}

\* C7: aggregate runs only when every agent dispatched in the phase has
\* returned, once per phase, and all_findings is the concatenation of the
\* four finding lists in the order forensic, management, rpt, market_intel.
C7_Barrier ==
    /\ [](/\ pc = "agents" => hist.aggregates = hist.phases - 1
          /\ pc \in {"critic", "route", "report", "finish"} =>
                hist.aggregates = hist.phases)
    /\ [][(pc = "agents" /\ pc' = "critic") =>
            /\ \A t \in active : task[t].pc = "done"
            /\ state'.all_findings =
                   state.forensic_findings \o state.management_findings
                     \o state.rpt_findings \o state.market_intel_findings
            /\ hist'.aggregates = hist.aggregates + 1]_vars

\* the aggregate of a reinvestigation phase, over findings of several agents
C7_Witness ==
    /\ pc = "critic"
    /\ hist.phases = 2
    /\ hist.aggregates = 2
    /\ Len(state.all_findings) = 4

\* C8: a raising data fetch and a raising memory load both leave the run
\* going with a placeholder, and both leave an entry in the error list.
C8_EnrichmentFailureRecorded ==
    pc = "agents" =>
        /\ hist.fetch_raised =>
              \E e \in Range(state.errors) : e.source = "fetch_data"
        /\ hist.memory_raised =>
              /\ state.memory_context = NoFeedback
              /\ \E e \in Range(state.errors) : e.source = "load_memory"

\* C9: when an exception escaped graph.invoke, analyze returns (it does not
\* raise) the dict of ticker, error, status failed and analysis id, nothing
\* else, and the last status written to the store is failed.
C9_MinimalErrorReport ==
    exc # "-" =>
        /\ pc \in {"except", "returned"}
        /\ pc = "returned" =>
              /\ DOMAIN ret = {"ticker", "error", "status", "analysis_id"}
              /\ ret.status = "failed"
              /\ ret.error = exc
              /\ store[Len(store)] = StoreOp("update_analysis_status", "failed")

\* the exception escaped from an agent during the fan-out
C9_Witness ==
    /\ pc = "returned"
    /\ exc = "market_intel"
    /\ \E t \in TryAgents : task[t].pc = "done"

\* C10: a call tries the providers in chain order from the first one, each
\* once, up to and including the first that answers; which kind of failure a
\* provider gave makes no difference.
C10_PriorityOrder ==
    ncalls > 0 =>
        LET n == Len(providers)
            oks == {i \in 1..n : lastOuts[i] = "ok"}
            k == IF oks = {} THEN n
                 ELSE CHOOSE i \in oks : \A j \in oks : i <= j
        IN  /\ lastCall.attempted = SubSeq(providers, 1, k)
            /\ lastCall.ok = (oks # {})
            /\ lastCall.ok => lastCall.provider = providers[k]

\* a later call of a sequence falls back past a rate-limited and a failed
\* provider to the third
C10_Witness ==
    /\ ncalls >= 2
    /\ Len(providers) = 3
    /\ lastOuts = <<"rate_limit", "error", "ok">>
    /\ lastCall.ok
    /\ lastCall.attempted = providers

\* C11: call raises LLMProviderError exactly when every provider of the chain
\* failed on that call, and the error then carries one entry per provider, in
\* chain order, each with the provider's name and its own failure reason.
C11_AggregateError ==
    ncalls > 0 =>
        LET n == Len(providers)
        IN  /\ ~lastCall.ok <=> \A i \in 1..n : lastOuts[i] # "ok"
            /\ ~lastCall.ok =>
                  /\ Len(lastCall.errors) = n
                  /\ \A i \in 1..n :
                        /\ lastCall.errors[i].name = providers[i]
                        /\ lastCall.errors[i].reason =
                              (IF lastOuts[i] = "rate_limit"
                               THEN "rate limited" ELSE "error")

\* a chain of three exhausted by failures of both kinds
C11_Witness ==
    /\ ncalls > 0
    /\ Len(providers) = 3
    /\ lastOuts = <<"error", "rate_limit", "error">>
    /\ ~lastCall.ok
    /\ Len(lastCall.errors) = 3

\* C12: the chain is never empty and never changes after construction; it
\* holds gemini, antigravity and openrouter in that relative order, each
\* exactly when its setting is set, and none exactly when no setting is set.
C12_ChainStatic ==
    /\ [](LET names == Range(providers)
              pos(x) == CHOOSE i \in 1..Len(providers) : providers[i] = x
          IN  /\ providers # <<>>
              /\ Cardinality(names) = Len(providers)
              /\ names \subseteq {"gemini", "antigravity", "openrouter", "none"}
              /\ "gemini" \in names <=> settings.google_api_key
              /\ "antigravity" \in names <=> settings.antigravity_enabled
              /\ "openrouter" \in names <=> settings.openrouter_api_key
              /\ "none" \in names <=>
                    ~(settings.google_api_key \/ settings.antigravity_enabled
                      \/ settings.openrouter_api_key)
              /\ {"gemini", "antigravity"} \subseteq names =>
                    pos("gemini") < pos("antigravity")
              /\ {"antigravity", "openrouter"} \subseteq names =>
                    pos("antigravity") < pos("openrouter")
              /\ {"gemini", "openrouter"} \subseteq names =>
                    pos("gemini") < pos("openrouter"))
    /\ [][providers' = providers]_vars

\* a chain without its middle provider, after calls were made on it
C12_Witness ==
    /\ ncalls >= 2
    /\ settings = [google_api_key |-> TRUE, antigravity_enabled |-> FALSE,
                   openrouter_api_key |-> TRUE]
    /\ providers = <<"gemini", "openrouter">>

\* C13: one _call_llm_json makes at most two requests; the second is made
\* exactly when the first response failed recovery, with the original prompt
\* plus that parse error; a second recovery failure is raised; when all
\* providers fail, on either request, the error is raised without a retry.
C13_RetryOnce ==
    returned.fn = "call_llm_json" =>
        LET r == returned.value
            answered(x) == \E i \in 1..Len(providers) : x.outs[i] = "ok"
            p1 == parse_json_response(args.x1.resp.content)
            p2 == parse_json_response(args.x2.resp.content)
            retry == answered(args.x1) /\ ~p1.ok
        IN  /\ Len(r.calls) \in {1, 2}
            /\ Len(r.prompts) = Len(r.calls)
            /\ r.prompts[1] = UserPrompt
            /\ Len(r.calls) = 2 <=> retry
            /\ retry => r.prompts[2] = UserPrompt \o <<p1.error>>
            /\ (retry /\ answered(args.x2) /\ ~p2.ok) =>
                  ~r.ok /\ r.error = "ValueError"
            /\ ~answered(args.x1) => ~r.ok /\ r.error = "LLMProviderError"
            /\ (retry /\ ~answered(args.x2)) =>
                  ~r.ok /\ r.error = "LLMProviderError"
            /\ r.ok <=> \/ answered(args.x1) /\ p1.ok
                        \/ retry /\ answered(args.x2) /\ p2.ok

\* unreadable text twice, each time from the second provider
C13_Witness ==
    /\ returned.fn = "call_llm_json"
    /\ args.x1.outs = <<"rate_limit", "ok">>
    /\ args.x1.resp.content.form = "garbage"
    /\ args.x2.outs = <<"error", "ok">>
    /\ args.x2.resp.content.form = "garbage"
    /\ returned.value.error = "ValueError"
    /\ returned.value.prompts = <<UserPrompt, UserPrompt \o <<ParseError>>>>

\* C14: recovery applies direct parse, fenced block, outermost braces and
\* lenient repair in that order and returns what the first one that reads
\* the text gives; a strategy that fails never stops the later ones, and
\* the parse error with the text's snippet is raised only when all four failed.
C14_RecoveryOrder ==
    returned.fn = "parse_json_response" =>
        LET r == returned.value
            reads == Reads(args.content.form)
            firstOk == CHOOSE n \in 1..4 :
                          /\ Strategies[n] \in reads
                          /\ \A m \in 1..(n - 1) : Strategies[m] \notin reads
        IN  /\ r.ok <=> reads # {}
            /\ r.ok => /\ r.tried = SubSeq(Strategies, 1, firstOk)
                       /\ r.value = args.content.payload
            /\ ~r.ok => r.tried = Strategies /\ r.error = ParseError

\* C15: every finding _extract_findings produces has requires_human_review
\* equal to (confidence < 70 or severity = critical) on its normalized
\* confidence and severity, whatever flag the raw record carries.
C15_ReviewFlagComputed ==
    (returned.fn = "extract_findings" /\ ~returned.raised) =>
        \A i \in 1..Len(returned.findings) :
            LET n == returned.findings[i]
            IN  n.requires_human_review =
                    (n.confidence < 70 \/ n.severity = "critical")

\* a critical finding with confidence 90 whose raw record says no review is
\* flagged
C15_Witness ==
    /\ returned.fn = "extract_findings"
    /\ ~returned.raised
    /\ Len(returned.findings) = 1
    /\ args.result.findings[1] =
          [title |-> "x", confidence |-> 90, severity |-> "CRITICAL",
           requires_human_review |-> FALSE]
    /\ returned.findings[1].requires_human_review

C17_AggregatedInRange ==
    (returned.fn = "extract_findings" /\ ~returned.raised) =>
        \A i \in 1..Len(returned.all_findings) :
            /\ returned.all_findings[i].severity \in
                  {"critical", "high", "medium", "low"}
            /\ returned.all_findings[i].confidence >= 0
            /\ returned.all_findings[i].confidence <= 100

\* C18: whatever the base confidence and the lists of matches, the adjusted
\* confidence calculate_adjusted_confidence returns lies in [0, 100].
C18_AdjustedClamped ==
    returned.fn = "calculate_adjusted_confidence" =>
        /\ returned.value.adjusted >= 0
        /\ returned.value.adjusted <= 100 * returned.value.den

\* a base far below zero with every boost at its cap is brought up to 0
C18_Witness ==
    /\ returned.fn = "calculate_adjusted_confidence"
    /\ args.base_confidence = 0 - 1000
    /\ args.similar_approved = <<[score |-> 300]>>
    /\ Len(args.matching_patterns) = 4
    /\ args.similar_rejected = <<>>
    /\ returned.value.delta = 35 * returned.value.den
    /\ returned.value.adjusted = 0

\* C19: with nothing rejected and no pattern, approved matches with positive
\* similarities give a delta above zero, and the same list given as rejected
\* instead gives a delta below zero of strictly greater magnitude.
C19_PenaltyOutweighsBoost ==
    (/\ returned.fn = "calculate_adjusted_confidence"
     /\ args.similar_approved # <<>>
     /\ args.similar_rejected = <<>>
     /\ args.matching_patterns = <<>>) =>
        LET swapped == calculate_adjusted_confidence(
                           args.base_confidence, <<>>,
                           args.similar_approved, <<>>)
        IN  /\ returned.value.delta > 0
            /\ swapped.delta < 0
            /\ (0 - swapped.delta) * returned.value.den
                  > returned.value.delta * swapped.den

\* similarities 0.9 and 0.01: the boost is below its cap
C19_Witness ==
    /\ returned.fn = "calculate_adjusted_confidence"
    /\ args.base_confidence = 60
    /\ args.similar_approved = <<[score |-> 90], [score |-> 1]>>
    /\ args.similar_rejected = <<>>
    /\ args.matching_patterns = <<>>
    /\ returned.value.delta > 0
    /\ returned.value.delta < 20 * returned.value.den

\* C20: the overall risk score of the report is the weighted mean of forensic
\* risk (0.35), 100 - management quality (0.30), rpt risk (0.35) and
\* 100 - market sentiment (0.20) over exactly the tasks that produced a
\* score.
C20_WeightedMeanOfPresent ==
    pc = "finish" =>
        LET P == {t \in Tasks : ~task[t].failed}
        IN  P # {} =>
              state.report.overall_risk_score =
                  Round1(SumOver(P, [t \in P |->
                                       Risk(t, state[ScoreKey(t)]) * Weight(t)]),
                         SumOver(P, [t \in P |-> Weight(t)]))

\* C22: a cache that misses or raises, on the read or on the write, leaves the
\* run as it is with no cache: no exception leaves the fetch step, and a fetch
\* that succeeded leaves no fetch entry in the error list.
C22_CacheFailureLikeNoCache ==
    /\ hist.cache \in {"miss", "read_error", "write_error"} => exc # "fetch_data"
    /\ (hist.cache \in {"miss", "write_error"} /\ ~hist.fetch_raised) =>
          ~ \E e \in Range(state.errors) : e.source = "fetch_data"

\* C26: no operation of the persistent store is invoked before the graph
\* starts nor while it runs; the store is first touched after the report.
C26_StoreAfterReport ==
    pc \in {"fetch_data", "load_memory", "agents", "critic", "route", "report"} =>
        store = <<>>

\* C27: when agents of the first dispatch phase fail, the error list of the
\* report holds an entry of each of them, and the entry the fetch step
\* recorded before them.
C27_NoErrorEntryLost ==
    (pc = "finish" /\ hist.phases = 1) =>
        /\ \A t \in TryAgents :
              task[t].failed => \E e \in Range(state.report.errors) : e.source = t
        /\ hist.fetch_raised =>
              \E e \in Range(state.report.errors) : e.source = "fetch_data"

\* C28: the tasks whose score enters the overall risk score are exactly the
\* tasks that succeeded: a failed task is left out, a task that succeeded is
\* in, whatever score it reported.
C28_ScoredAreSucceeded ==
    pc = "finish" => Scored(state) = {t \in Tasks : ~task[t].failed}

\* C29: after a critic that failed or had no findings needs_reinvestigation
\* is false; after a verdict it is true exactly when the verdict's
\* reinvestigation requests are non-empty; and when it is false the edge
\* taken leads to the report node.
C29_CriticFailureProceeds ==
    /\ [](pc = "route" =>
            /\ hist.critic \in {"empty", "LLMProviderError", "ValueError"} =>
                  ~state.needs_reinvestigation
            /\ hist.critic = "verdict" =>
                  (state.needs_reinvestigation <=>
                     Get(state.critic_result, "reinvestigation_requests", <<>>) # <<>>))
    /\ [][(pc = "route" /\ ~state.needs_reinvestigation) => pc' = "report"]_vars

\* C29 witness: the critic's answer could not be read twice, and the run is
\* at the report node with the critic's entry in the error list.
C29_Witness ==
    /\ pc = "report"
    /\ hist.critic = "ValueError"
    /\ ~state.needs_reinvestigation
    /\ \E e \in Range(state.errors) : e.source = "critic"

\* C25: whenever no thread is inside call, the calls counter is the number of
\* calls that returned a response and the token counters are the sums over
\* those responses; a step never lowers a counter.
C25_UsageMatchesServed ==
    /\ []((\A c \in Callers : callers[c].pc = "idle") =>
            /\ total_usage.calls =
                   SumOver(Callers, [c \in Callers |-> callers[c].served.calls])
            /\ total_usage.input =
                   SumOver(Callers, [c \in Callers |-> callers[c].served.input])
            /\ total_usage.output =
                   SumOver(Callers, [c \in Callers |-> callers[c].served.output]))
    /\ [][/\ total_usage'.calls >= total_usage.calls
          /\ total_usage'.input >= total_usage.input
          /\ total_usage'.output >= total_usage.output]_vars

\* C23: when the embedder or any of the four searches raises,
\* retrieve_relevant_feedback returns the context of four empty lists and
\* raises nothing, and the memory context formatted from it is the
\* placeholder.
C23_RetrievalDegradesToEmpty ==
    returned.fn = "retrieve_relevant_feedback" =>
        /\ ~returned.raised
        /\ (args.embed = "error" \/ \E i \in 1..4 : args.searches[i].raised) =>
              /\ returned.value = empty_context
              /\ \A k \in Range(ContextKeys) : returned.value[k] = <<>>
              /\ returned.memory_context = NoFeedback

\* C23 witness: the embedding and the first search succeeded, the first
\* search found a feedback, a later search raised, and the empty context
\* came back.
C23_Witness ==
    /\ returned.fn = "retrieve_relevant_feedback"
    /\ args.embed = "ok"
    /\ ~args.searches[1].raised /\ args.searches[1].hits # <<>>
    /\ args.searches[3].raised
    /\ returned.value = empty_context

\* C21: the risk level of a report is the level the mapping gives for the
\* overall risk score of that report, in the report of the workflow and in
\* the report of run_analysis.
C21_LevelMatchesScore ==
    /\ pc = "finish" =>
          state.report.risk_level = risk_level(state.report.overall_risk_score)
    /\ mvp.pc = "done" =>
          mvp.report.risk_level = risk_level(mvp.report.overall_risk_score)

\* C24: the narrative step never changes what the score, the level and the
\* findings are computed from and always hands on to the report; after a
\* failed narrative call the report is complete, its narrative field is the
\* error text, its findings are the findings collected, and the error list
\* of the state given to the narrative agent holds the narrative entry.
C24_NarrativeFailureDegrades ==
    /\ [][mvp.pc = "narrative" =>
            /\ mvp'.pc = "report"
            /\ mvp'.results = mvp.results
            /\ mvp'.state = mvp.state
            /\ mvp'.own = mvp.own
            /\ mvp'.critic_state = mvp.critic_state
            /\ mvp'.all_findings = mvp.all_findings]_vars
    /\ []((mvp.pc = "done" /\ "narrative" \in mvp.failed) =>
            /\ mvp.report.narrative_report = NarrativeError
            /\ \E e \in Range(Get(mvp.narrative_state, "errors", <<>>)) :
                  e.source = "narrative"
            /\ mvp.report.findings = mvp.all_findings
            /\ mvp.report.overall_risk_score =
                  Round1(weighted_sum(mvp), weight_sum(mvp))
            /\ mvp.report.risk_level =
                  mvp_risk_level(weighted_sum(mvp), weight_sum(mvp)))

\* C24 witness: the narrative call failed and the report is there with its
\* findings and the error text.
C24_Witness ==
    /\ mvp.pc = "done"
    /\ "narrative" \in mvp.failed
    /\ mvp.failed \cap Tasks = {}
    /\ mvp.report.narrative_report = NarrativeError
    /\ mvp.report.findings_count = 2

\* C30: the overall score of run_analysis is the mean of the risk scores of
\* the agents that succeeded, each taken once with its weight 0.35, 0.25,
\* 0.25, 0.15.
C30_EachScoreOnce ==
    mvp.pc = "done" =>
        LET P == Tasks \ mvp.failed
            risk == [t \in P |-> IF t = "market_intel"
                                  THEN mvp.own[RiskKey(t)]
                                  ELSE mvp.state[RiskKey(t)]]
        IN  P # {} =>
              mvp.report.overall_risk_score =
                  Round1(SumOver(P, [t \in P |-> risk[t] * MvpWeight(t)]),
                         SumOver(P, [t \in P |-> MvpWeight(t)]))

====
